---- MODULE Spec2Model ----
(***************************************************************************)
(* Contact workflow of the contact-management REST API:                    *)
(*   src/contact/contact.service.ts     ContactService                     *)
(*   src/contact/contact.controller.ts  ContactController                  *)
(*   prisma schema (model Contact)                                         *)
(*                                                                         *)
(* The store is the `contacts` table.  Every `await` on a storage call is  *)
(* a suspension point, so a handler with two storage calls (update,        *)
(* remove) is two steps, with other requests free to run in between.       *)
(***************************************************************************)
EXTENDS Integers, Sequences, FiniteSets, TLC

\* ------------------------------------------------------------------ bounds

\* Number of requests the server accepts in one run.
MaxRequests == 4

\* ------------------------------------------------------- program constants

\* @db.VarChar(100) on every text column of model Contact.
MaxFieldLen == 100

\* @HttpCode(200) on every route of the controller.
HttpOk == 200

\* new HttpException('Contact is not found', 404)
NotFoundStatus == 404

NotFoundMessage == "Contact is not found"

\* ------------------------------------------------------------ value domain

Users == {"alice", "bob"}

\* The handlers that suspend at an await between two storage calls.  One
\* request of each may be suspended at a time; create and get make one
\* storage call and run to their reply.
Handlers == {"update", "remove"}

\* A key absent from a JSON body / a NULL column.
Undefined == "<undefined>"
Null == "<null>"

\* A string of 101 characters, one more than the column holds.
LongString == "<101 chars>"

\* Length of each string the clients of this model send.
StrLen(s) ==
  CASE s = LongString -> MaxFieldLen + 1
    [] s \in {"Ann", "Bob", "Lee", "555", "bob"} -> 3
    [] s = "ann@x.com" -> 9
    [] s = "not-an-email" -> 12

WellFormedEmail(s) == s \in {"ann@x.com"}

Body(fn, ln, em, ph, un) ==
  [first_name |-> fn, last_name |-> ln, email |-> em, phone |-> ph, username |-> un]

\* Bodies a client sends to POST /api/contacts: first_name alone, every
\* field, a body that carries a username of its own, and three bodies the
\* schema rejects (no first_name, a first_name too long, a malformed email).
CreateRequests ==
  { Body("Ann", Undefined, Undefined, Undefined, Undefined),
    Body("Ann", "Lee", "ann@x.com", "555", Undefined),
    Body("Ann", Undefined, Undefined, Undefined, "bob"),
    Body(Undefined, "Lee", Undefined, Undefined, Undefined),
    Body(LongString, Undefined, Undefined, Undefined, Undefined),
    Body("Ann", Undefined, "not-an-email", Undefined, Undefined) }

\* Bodies a client sends to PUT /api/contacts/:contactId: no field, the
\* required field alone, the optional fields alone, a body that carries a
\* username, and two bodies the schema rejects.
UpdateBodies ==
  { Body(Undefined, Undefined, Undefined, Undefined, Undefined),
    Body("Bob", Undefined, Undefined, Undefined, Undefined),
    Body(Undefined, "Lee", "ann@x.com", "555", Undefined),
    Body("Bob", Undefined, Undefined, Undefined, "bob"),
    Body(LongString, Undefined, Undefined, Undefined, Undefined),
    Body(Undefined, Undefined, "not-an-email", Undefined, Undefined) }

VARIABLES
  contacts,   \* rows of table `contacts`
  nextId,     \* the autoincrement counter of contacts.id
  pending,    \* per handler: the request suspended at its await, or Idle
  response,   \* the outcome of the request that finished last
  accepted    \* number of requests accepted so far

vars == <<contacts, nextId, pending, response, accepted>>

Idle == [idle |-> TRUE]

\* Ids a client may put in the path: every id handed out so far (stored or
\* already removed) and one id never handed out; the lookup treats all ids
\* never handed out alike.
RequestIds == 1..nextId

\* ------------------------------------------------------- validation layer

\* A text field of a schema: a string of 1..100 characters.
FieldOk(s) == StrLen(s) >= 1 /\ StrLen(s) <= MaxFieldLen

OptionalOk(s) == s = Undefined \/ FieldOk(s)

\* ContactValidation.CREATE: first_name required, the rest optional, email
\* format-checked when present.
ValidCreate(request) ==
  /\ request.first_name # Undefined
  /\ FieldOk(request.first_name)
  /\ OptionalOk(request.last_name)
  /\ OptionalOk(request.email)
  /\ request.email # Undefined => WellFormedEmail(request.email)
  /\ OptionalOk(request.phone)

\* ContactValidation.UPDATE: id required, every other field optional.
ValidUpdate(request) ==
  /\ request.id \in Int
  /\ OptionalOk(request.first_name)
  /\ OptionalOk(request.last_name)
  /\ OptionalOk(request.email)
  /\ request.email # Undefined => WellFormedEmail(request.email)
  /\ OptionalOk(request.phone)

\* validationService.validate returns the normalised object: the fields the
\* schema names, and nothing else.
ValidatedCreate(request) ==
  [first_name |-> request.first_name, last_name |-> request.last_name,
   email |-> request.email, phone |-> request.phone]

ValidatedUpdate(request) ==
  [id |-> request.id, first_name |-> request.first_name,
   last_name |-> request.last_name, email |-> request.email,
   phone |-> request.phone]

ValidationError == [type |-> "ValidationError"]

\* ------------------------------------------------------------ storage layer

\* A column left out of `data` on insert is stored as NULL.
OrNull(v) == IF v = Undefined THEN Null ELSE v

\* A column left out of `data` on update keeps its value.
OrKeep(v, old) == IF v = Undefined THEN old ELSE v

\* prisma.contact.create({data}): the row inserted, id from the counter.
insertedRow(id, data) ==
  [id |-> id,
   first_name |-> data.first_name,
   last_name |-> OrNull(data.last_name),
   email |-> OrNull(data.email),
   phone |-> OrNull(data.phone),
   username |-> data.username]

\* findFirst with the username filter left out of `where`.
findFirst_byIdOnly(store, username, id) ==
  LET hits == {r \in store : r.id = id}
  IN IF hits = {} THEN [found |-> FALSE]
     ELSE [found |-> TRUE, contact |-> CHOOSE r \in hits : TRUE]

\* prisma.contact.findFirst({where: {username, id}}).
findFirst(store, username, id) ==
  LET hits == {r \in store : r.username = username /\ r.id = id}
  IN IF hits = {} THEN [found |-> FALSE]
     ELSE [found |-> TRUE, contact |-> CHOOSE r \in hits : TRUE]

\* update that writes NULL into every column `data` leaves out.
updatedRow_nullsOmitted(row, data) ==
  [id |-> data.id,
   first_name |-> OrKeep(data.first_name, row.first_name),
   last_name |-> OrNull(data.last_name),
   email |-> OrNull(data.email),
   phone |-> OrNull(data.phone),
   username |-> row.username]

\* prisma.contact.update({where: {id, username}, data}): the row as written.
updatedRow(row, data) ==
  [id |-> data.id,
   first_name |-> OrKeep(data.first_name, row.first_name),
   last_name |-> OrKeep(data.last_name, row.last_name),
   email |-> OrKeep(data.email, row.email),
   phone |-> OrKeep(data.phone, row.phone),
   username |-> row.username]

\* The error of an update or delete whose `where` matches no row.
RecordNotFound == [type |-> "PrismaClientKnownRequestError", code |-> "P2025"]

\* prisma.contact.delete({where: {id, username}}): the table without the row.
removeRow(store, contact) ==
  {r \in store : ~(r.id = contact.id /\ r.username = contact.username)}

\* -------------------------------------------------------- contact service

\* What a service method hands back: a value, or the exception it threw;
\* `store` is the table it leaves and `calls` the storage calls it made.
Ok(value) == [ok |-> TRUE, value |-> value]

Err(error) == [ok |-> FALSE, error |-> error]

Outcome(result, store, calls) ==
  [result |-> result, store |-> store, calls |-> calls]

\* The mapping with email and phone swapped.
toContactResponse_swapped(contact) ==
  [first_name |-> contact.first_name,
   last_name |-> contact.last_name,
   email |-> contact.phone,
   phone |-> contact.email,
   id |-> contact.id]

toContactResponse(contact) ==
  [first_name |-> contact.first_name,
   last_name |-> contact.last_name,
   email |-> contact.email,
   phone |-> contact.phone,
   id |-> contact.id]

HttpException(message, status) ==
  [type |-> "HttpException", message |-> message, status |-> status]

\* The lookup that answers 400 instead of 404.
checkContactMustExists_400(store, username, contactId) ==
  LET contact == findFirst(store, username, contactId)
  IN IF ~contact.found
       THEN Err(HttpException(NotFoundMessage, 400))
       ELSE Ok(contact.contact)

\* The lookup that tells a row of another owner from a missing row.
checkContactMustExists_leaky(store, username, contactId) ==
  LET contact == findFirst(store, username, contactId)
  IN IF contact.found THEN Ok(contact.contact)
     ELSE IF \E r \in store : r.id = contactId
            THEN Err(HttpException("Forbidden", 403))
            ELSE Err(HttpException(NotFoundMessage, NotFoundStatus))

\* The lookup by id alone: any owner's row passes.
checkContactMustExists_anyOwner(store, username, contactId) ==
  LET hits == {r \in store : r.id = contactId}
  IN IF hits = {}
       THEN Err(HttpException(NotFoundMessage, NotFoundStatus))
       ELSE Ok(CHOOSE r \in hits : TRUE)

\* The lookup that authorises get, update and remove: the row with this id
\* AND this username, or HttpException 404.
checkContactMustExists(store, username, contactId) ==
  LET contact == findFirst(store, username, contactId)
  IN IF ~contact.found
       THEN Err(HttpException(NotFoundMessage, NotFoundStatus))
       ELSE Ok(contact.contact)

\* The `data` of create's insert: the validated fields, then the caller's
\* username spread over them.
createData(user, createRequest) ==
  [first_name |-> createRequest.first_name,
   last_name |-> createRequest.last_name,
   email |-> createRequest.email,
   phone |-> createRequest.phone,
   username |-> user]

\* create with the spread order reversed and the raw body spread: a username
\* in the body wins over the caller's.
create_clientUsername(store, id, user, request) ==
  IF ~ValidCreate(request)
    THEN Outcome(Err(ValidationError), store, <<>>)
    ELSE LET owner == IF request.username = Undefined THEN user
                      ELSE request.username
             contact == insertedRow(id,
                          createData(owner, ValidatedCreate(request)))
         IN Outcome(Ok(toContactResponse(contact)), store \cup {contact},
                    <<"create">>)

\* ContactService.create: validate, insert, map the row to the DTO.
create(store, id, user, request) ==
  IF ~ValidCreate(request)
    THEN Outcome(Err(ValidationError), store, <<>>)
    ELSE LET contact == insertedRow(id,
                          createData(user, ValidatedCreate(request)))
         IN Outcome(Ok(toContactResponse(contact)), store \cup {contact},
                    <<"create">>)

\* ContactService.get.
get(store, user, contactId) ==
  LET contact == checkContactMustExists(store, user, contactId)
  IN IF contact.ok
       THEN Outcome(Ok(toContactResponse(contact.value)), store,
                    <<"findFirst">>)
       ELSE Outcome(contact, store, <<"findFirst">>)

\* What a handler suspended after its lookup holds: the caller, the
\* validated request, and of the row found the two fields read later.
Frame(user, request, contact) ==
  [user |-> user, request |-> request,
   contact |-> [id |-> contact.id, username |-> contact.username]]

Suspended(frame) == [suspended |-> TRUE, frame |-> frame]

Finished(outcome) == [suspended |-> FALSE, outcome |-> outcome]

Matching(store, found) ==
  {r \in store : r.id = found.id /\ r.username = found.username}

\* update that looks the row up before it validates the body.
updateCheck_lookupFirst(store, user, request) ==
  LET contact == checkContactMustExists(store, user, request.id)
  IN IF ~contact.ok
       THEN Finished(Outcome(contact, store, <<"findFirst">>))
       ELSE IF ~ValidUpdate(request)
              THEN Finished(Outcome(Err(ValidationError), store,
                                    <<"findFirst">>))
              ELSE Suspended(Frame(user, ValidatedUpdate(request),
                                   contact.value))

\* ContactService.update up to the end of `await checkContactMustExists`.
updateCheck(store, user, request) ==
  IF ~ValidUpdate(request)
    THEN Finished(Outcome(Err(ValidationError), store, <<>>))
    ELSE LET updateRequest == ValidatedUpdate(request)
             contact == checkContactMustExists(store, user, updateRequest.id)
         IN IF contact.ok
              THEN Suspended(Frame(user, updateRequest, contact.value))
              ELSE Finished(Outcome(contact, store, <<"findFirst">>))

\* The write as an upsert: a row that is gone is inserted again.
updateWrite_upsert(store, frame) ==
  LET hits == Matching(store, frame.contact)
      old == IF hits = {}
               THEN [id |-> frame.contact.id, first_name |-> Null,
                     last_name |-> Null, email |-> Null, phone |-> Null,
                     username |-> frame.contact.username]
               ELSE CHOOSE r \in hits : TRUE
      contact == updatedRow(old, frame.request)
  IN Outcome(Ok(toContactResponse(contact)),
             (store \ hits) \cup {contact}, <<"findFirst", "update">>)

\* ContactService.update from `await prisma.contact.update` on.
updateWrite(store, frame) ==
  LET hits == Matching(store, frame.contact)
  IN IF hits = {}
       THEN Outcome(Err(RecordNotFound), store, <<"findFirst", "update">>)
       ELSE LET old == CHOOSE r \in hits : TRUE
                contact == updatedRow(old, frame.request)
            IN Outcome(Ok(toContactResponse(contact)),
                       (store \ {old}) \cup {contact},
                       <<"findFirst", "update">>)

\* ContactService.update when no other request runs between its two awaits.
update(store, user, request) ==
  LET checked == updateCheck(store, user, request)
  IN IF checked.suspended THEN updateWrite(store, checked.frame)
     ELSE checked.outcome

\* ContactService.remove up to the end of its ownership-checked lookup.
removeCheck(store, user, contactId) ==
  LET contact == checkContactMustExists(store, user, contactId)
  IN IF contact.ok
       THEN Suspended(Frame(user, [id |-> contactId], contact.value))
       ELSE Finished(Outcome(contact, store, <<"findFirst">>))

\* ContactService.remove from the delete on.
removeDelete(store, frame) ==
  IF Matching(store, frame.contact) = {}
    THEN Outcome(Err(RecordNotFound), store, <<"findFirst", "delete">>)
    ELSE Outcome(Ok(TRUE), removeRow(store, frame.contact),
                 <<"findFirst", "delete">>)

\* ContactService.remove when no other request runs between its two awaits.
remove(store, user, contactId) ==
  LET checked == removeCheck(store, user, contactId)
  IN IF checked.suspended THEN removeDelete(store, checked.frame)
     ELSE checked.outcome

\* ------------------------------------------------------ contact controller

CollectionRoute(request) == [route |-> "/api/contacts", body |-> request]

ItemRoute(contactId) ==
  [route |-> "/api/contacts/:contactId", contactId |-> contactId]

\* What leaves a route: {data: result} with status 200 when the service
\* returned, the exception when it threw.
Reply(op, user, params, outcome) ==
  IF outcome.result.ok
    THEN [op |-> op, user |-> user, params |-> params, kind |-> "return",
          status |-> HttpOk, body |-> [data |-> outcome.result.value],
          calls |-> outcome.calls]
    ELSE [op |-> op, user |-> user, params |-> params, kind |-> "throw",
          error |-> outcome.result.error, calls |-> outcome.calls]

\* ContactController.update: request.id = contactId.
withId(contactId, body) == [id |-> contactId] @@ body

\* remove without the await: {data: true} whatever the service does.
removeReply_noAwait(user, contactId, outcome) ==
  Reply("remove", user, ItemRoute(contactId),
        Outcome(Ok(TRUE), outcome.store, outcome.calls))

\* ContactController.remove awaits the service and answers {data: true}.
removeReply(user, contactId, outcome) ==
  Reply("remove", user, ItemRoute(contactId),
        IF outcome.result.ok
          THEN Outcome(Ok(TRUE), outcome.store, outcome.calls)
          ELSE outcome)

\* ------------------------------------------------------------------ actions

Init ==
  /\ contacts = {}
  /\ nextId = 1
  /\ pending = [h \in Handlers |-> Idle]
  /\ response = [op |-> "none", kind |-> "none"]
  /\ accepted = 0

\* The server takes one more request.
Accept ==
  /\ accepted < MaxRequests
  /\ accepted' = accepted + 1

\* POST /api/contacts.
PostContact(user, request) ==
  LET done == create(contacts, nextId, user, request)
  IN /\ Accept
     /\ contacts' = done.store
     /\ nextId' = IF done.result.ok THEN nextId + 1 ELSE nextId
     /\ response' = Reply("create", user, CollectionRoute(request), done)
     /\ UNCHANGED pending

\* GET /api/contacts/:contactId.
GetContact(user, contactId) ==
  LET done == get(contacts, user, contactId)
  IN /\ Accept
     /\ response' = Reply("get", user, ItemRoute(contactId), done)
     /\ UNCHANGED <<contacts, nextId, pending>>

\* PUT /api/contacts/:contactId, to the end of the lookup.
PutContact(user, contactId, body) ==
  LET checked == updateCheck(contacts, user, withId(contactId, body))
  IN /\ Accept
     /\ pending.update = Idle
     /\ IF checked.suspended
          THEN /\ pending' = [pending EXCEPT !.update = checked.frame]
               /\ UNCHANGED response
          ELSE /\ response' = Reply("update", user, ItemRoute(contactId),
                                    checked.outcome)
               /\ UNCHANGED pending
     /\ UNCHANGED <<contacts, nextId>>

\* PUT /api/contacts/:contactId, the write and the reply.
PutContactWrite ==
  /\ pending.update # Idle
  /\ LET frame == pending.update
         done == updateWrite(contacts, frame)
     IN /\ contacts' = done.store
        /\ response' = Reply("update", frame.user,
                             ItemRoute(frame.request.id), done)
  /\ pending' = [pending EXCEPT !.update = Idle]
  /\ UNCHANGED <<nextId, accepted>>

\* DELETE /api/contacts/:contactId, to the end of the lookup.
DeleteContact(user, contactId) ==
  LET checked == removeCheck(contacts, user, contactId)
  IN /\ Accept
     /\ pending.remove = Idle
     /\ IF checked.suspended
          THEN /\ pending' = [pending EXCEPT !.remove = checked.frame]
               /\ UNCHANGED response
          ELSE /\ response' = removeReply(user, contactId, checked.outcome)
               /\ UNCHANGED pending
     /\ UNCHANGED <<contacts, nextId>>

\* DELETE /api/contacts/:contactId, the delete and the reply.
DeleteContactDelete ==
  /\ pending.remove # Idle
  /\ LET frame == pending.remove
         done == removeDelete(contacts, frame)
     IN /\ contacts' = done.store
        /\ response' = removeReply(frame.user, frame.request.id, done)
  /\ pending' = [pending EXCEPT !.remove = Idle]
  /\ UNCHANGED <<nextId, accepted>>

Next ==
  \/ \E u \in Users, r \in CreateRequests : PostContact(u, r)
  \/ \E u \in Users, id \in RequestIds : GetContact(u, id)
  \/ \E u \in Users, id \in RequestIds, b \in UpdateBodies :
       PutContact(u, id, b)
  \/ PutContactWrite
  \/ \E u \in Users, id \in RequestIds : DeleteContact(u, id)
  \/ DeleteContactDelete

Spec == Init /\ [][Next]_vars

\* ------------------------------------------------------------------ claims

Owned(store, u, c) == \E r \in store : r.id = c /\ r.username = u

\* A service result that is the workflow's not-found error.
IsNotFound(result) ==
  /\ ~result.ok
  /\ result.error.type = "HttpException"
  /\ result.error.message = "Contact is not found"

IsValidationError(result) ==
  ~result.ok /\ result.error.type = "ValidationError"

\* The reply in `response` came from a request that ended at its lookup or
\* before it.
EndedAtLookup ==
  /\ response.op \in {"get", "update", "remove"}
  /\ response.calls \in {<<>>, <<"findFirst">>}

\* C1 as stated: the reply to a get, update or remove by u on an id c that
\* no stored contact of u has is the not-found error.
C1_Original ==
  (EndedAtLookup
     /\ ~Owned(contacts, response.user, response.params.contactId))
    => (response.kind = "throw" /\ IsNotFound(Err(response.error)))

\* C1 amended: whenever no stored contact has id c and username u, get and
\* remove by u on c end in the not-found error, update ends in the not-found
\* error when its body passes validation and in a validation error when it
\* does not, none of them returns a result or changes the table, and the
\* reply of such a request is one of these errors.
C1_NotOwnedNeverSucceeds ==
  /\ \A u \in Users, c \in RequestIds :
       ~Owned(contacts, u, c) =>
         /\ IsNotFound(get(contacts, u, c).result)
         /\ \A b \in UpdateBodies :
              LET done == update(contacts, u, withId(c, b))
              IN /\ ValidUpdate(withId(c, b)) => IsNotFound(done.result)
                 /\ ~ValidUpdate(withId(c, b))
                      => IsValidationError(done.result)
                 /\ done.store = contacts
         /\ IsNotFound(remove(contacts, u, c).result)
         /\ remove(contacts, u, c).store = contacts
  /\ (EndedAtLookup
        /\ ~Owned(contacts, response.user, response.params.contactId))
       => /\ response.kind = "throw"
          /\ \/ IsNotFound(Err(response.error))
             \/ response.op = "update" /\ IsValidationError(Err(response.error))

\* alice asked for a contact that bob owns and got the not-found error.
C1_Witness ==
  /\ response.op = "get"
  /\ response.kind = "throw"
  /\ response.user = "alice"
  /\ Owned(contacts, "bob", response.params.contactId)
  /\ IsNotFound(Err(response.error))

OthersUnchanged(u, store, after) ==
  {r \in store : r.username # u} = {r \in after : r.username # u}

\* C2: every operation invoked by user u, run from any reachable table
\* (the second half of a suspended update or remove included), leaves the
\* rows whose username is not u exactly as they were.
C2_OtherUsersUntouched ==
  /\ \A u \in Users :
       /\ \A r \in CreateRequests :
            OthersUnchanged(u, contacts, create(contacts, nextId, u, r).store)
       /\ \A c \in RequestIds :
            /\ OthersUnchanged(u, contacts, get(contacts, u, c).store)
            /\ OthersUnchanged(u, contacts, remove(contacts, u, c).store)
            /\ \A b \in UpdateBodies :
                 OthersUnchanged(u, contacts,
                                 update(contacts, u, withId(c, b)).store)
  /\ pending.update # Idle =>
       OthersUnchanged(pending.update.user, contacts,
                       updateWrite(contacts, pending.update).store)
  /\ pending.remove # Idle =>
       OthersUnchanged(pending.remove.user, contacts,
                       removeDelete(contacts, pending.remove).store)

\* alice's update of her own contact went through while bob has a contact.
C2_Witness ==
  /\ response.op = "update"
  /\ response.kind = "return"
  /\ response.user = "alice"
  /\ \E r \in contacts : r.username = "bob"

AbsentAsNull(v) == IF v = Undefined THEN Null ELSE v

\* C3: for every create request that passes validation, the DTO create
\* returns carries the request's four fields (an absent one as null), and
\* get by the same user with the returned id, run on the table create
\* leaves, returns that same DTO.
C3_CreateThenGet ==
  \A u \in Users, r \in CreateRequests :
    ValidCreate(r) =>
      LET done == create(contacts, nextId, u, r)
          dto == done.result.value
      IN /\ done.result.ok
         /\ dto.first_name = r.first_name
         /\ dto.last_name = AbsentAsNull(r.last_name)
         /\ dto.email = AbsentAsNull(r.email)
         /\ dto.phone = AbsentAsNull(r.phone)
         /\ get(done.store, u, dto.id).result = Ok(dto)

\* A create that left last_name out has answered, with null for it, and a
\* get of the new id by the same user answers the same DTO.
C3_Witness ==
  /\ response.op = "create"
  /\ response.kind = "return"
  /\ response.body.data.last_name = Null
  /\ get(contacts, response.user, response.body.data.id).result
       = Ok(response.body.data)

SuppliedOrKept(new, old, supplied) ==
  IF supplied = Undefined THEN new = old ELSE new = supplied

\* The write of `frame`, run on `store`, succeeds and replaces the row it
\* is keyed by with a row that differs from it in the supplied fields only.
ChangesExactlySupplied(store, frame, supplied) ==
  LET done == updateWrite(store, frame)
  IN \A old \in Matching(store, frame.contact) :
       /\ done.result.ok
       /\ \E new \in done.store :
            /\ new.id = old.id
            /\ new.username = old.username
            /\ SuppliedOrKept(new.first_name, old.first_name,
                              supplied.first_name)
            /\ SuppliedOrKept(new.last_name, old.last_name,
                              supplied.last_name)
            /\ SuppliedOrKept(new.email, old.email, supplied.email)
            /\ SuppliedOrKept(new.phone, old.phone, supplied.phone)
            /\ done.store \ {new} = store \ {old}
            /\ done.result.value =
                 [id |-> new.id, first_name |-> new.first_name,
                  last_name |-> new.last_name, email |-> new.email,
                  phone |-> new.phone]

\* C4: an update by u of a contact u owns, with a body that passes
\* validation, succeeds and changes exactly the fields the body supplies:
\* the omitted ones keep the value stored when the write runs, id and
\* username stay, and no other row changes.  The same holds of the write of
\* an update that is suspended after its lookup.
C4_UpdateChangesOnlySupplied ==
  /\ \A u \in Users, c \in RequestIds, b \in UpdateBodies :
       (Owned(contacts, u, c) /\ ValidUpdate(withId(c, b))) =>
         LET checked == updateCheck(contacts, u, withId(c, b))
         IN /\ checked.suspended
            /\ ChangesExactlySupplied(contacts, checked.frame, b)
  /\ pending.update # Idle =>
       ChangesExactlySupplied(contacts, pending.update, pending.update.request)

\* An update has answered with a contact whose first_name it or an earlier
\* update set and whose other fields were supplied by another request.
C4_Witness ==
  /\ response.op = "update"
  /\ response.kind = "return"
  /\ response.body.data.first_name = "Bob"
  /\ response.body.data.last_name = "Lee"
  /\ response.body.data.phone = "555"

\* C5: remove by u of a contact u owns, run alone, makes the lookup and the
\* delete, leaves the table without the row and is answered {data: true};
\* a remove is answered with success only when its delete removed a row of
\* the caller; and once get(u, c) fails with not-found for an id already
\* handed out, it fails with not-found ever after.
C5_RemoveThenGet ==
  [][ /\ \A u \in Users, c \in RequestIds :
           Owned(contacts, u, c) =>
             LET done == remove(contacts, u, c)
                 reply == removeReply(u, c, done)
             IN /\ done.result.ok
                /\ done.calls = <<"findFirst", "delete">>
                /\ ~Owned(done.store, u, c)
                /\ reply.kind = "return"
                /\ reply.status = 200
                /\ reply.body = [data |-> TRUE]
                /\ IsNotFound(get(done.store, u, c).result)
      /\ (response'.op = "remove" /\ response'.kind = "return"
            /\ response' # response) =>
           /\ response'.body = [data |-> TRUE]
           /\ response'.calls = <<"findFirst", "delete">>
           /\ Owned(contacts, response'.user, response'.params.contactId)
           /\ IsNotFound(get(contacts', response'.user,
                             response'.params.contactId).result)
      /\ \A u \in Users, c \in RequestIds :
           (c < nextId /\ IsNotFound(get(contacts, u, c).result))
             => IsNotFound(get(contacts', u, c).result)
    ]_vars

\* A remove has been answered {data: true} and get of the same id by the
\* same user now fails with not-found.
C5_Witness ==
  /\ response.op = "remove"
  /\ response.kind = "return"
  /\ response.body = [data |-> TRUE]
  /\ IsNotFound(get(contacts, response.user,
                    response.params.contactId).result)

\* C6: the row create inserts has the caller's username whatever the body
\* carries; a row appears only by a create and has the username of the user
\* that create answered; and no step changes the username of a stored row.
C6_UsernameIsCreator ==
  [][ /\ \A u \in Users, r \in CreateRequests :
           \A row \in create(contacts, nextId, u, r).store \ contacts :
             row.username = u /\ row.id = nextId
      /\ \A new \in contacts' :
           \/ \E old \in contacts :
                old.id = new.id /\ old.username = new.username
           \/ /\ response'.op = "create"
              /\ response'.kind = "return"
              /\ response'.body.data.id = new.id
              /\ response'.user = new.username
    ]_vars

\* alice's create whose body carried username "bob" has answered, and the
\* row it inserted is alice's.
C6_Witness ==
  /\ response.op = "create"
  /\ response.kind = "return"
  /\ response.user = "alice"
  /\ response.params.body.username = "bob"
  /\ Owned(contacts, "alice", response.body.data.id)

Mutating == {"create", "update", "delete"}

MutatingCalls(calls) ==
  Cardinality({i \in 1..Len(calls) : calls[i] \in Mutating})

\* C7: a create, update or remove whose body passes validation and whose
\* contact is the caller's makes exactly one mutating storage call (the
\* write of a suspended update or remove included, whatever became of the
\* row); one that fails validation or the ownership lookup makes none and
\* leaves the table as it was; and an update whose body fails validation
\* makes no storage call at all.
C7_OneMutationOrNone ==
  /\ \A u \in Users, r \in CreateRequests :
       LET done == create(contacts, nextId, u, r)
       IN IF ValidCreate(r)
            THEN done.result.ok /\ MutatingCalls(done.calls) = 1
            ELSE /\ ~done.result.ok
                 /\ done.calls = <<>>
                 /\ done.store = contacts
  /\ \A u \in Users, c \in RequestIds :
       /\ \A b \in UpdateBodies :
            LET done == update(contacts, u, withId(c, b))
            IN IF ValidUpdate(withId(c, b)) /\ Owned(contacts, u, c)
                 THEN done.result.ok /\ MutatingCalls(done.calls) = 1
                 ELSE /\ ~done.result.ok
                      /\ MutatingCalls(done.calls) = 0
                      /\ done.store = contacts
                      /\ ~ValidUpdate(withId(c, b)) => done.calls = <<>>
       /\ LET done == remove(contacts, u, c)
          IN IF Owned(contacts, u, c)
               THEN done.result.ok /\ MutatingCalls(done.calls) = 1
               ELSE /\ ~done.result.ok
                    /\ MutatingCalls(done.calls) = 0
                    /\ done.store = contacts
  /\ pending.update # Idle =>
       MutatingCalls(updateWrite(contacts, pending.update).calls) = 1
  /\ pending.remove # Idle =>
       MutatingCalls(removeDelete(contacts, pending.remove).calls) = 1
  /\ response.op \in {"create", "update", "remove"} =>
       IF response.kind = "return"
         THEN MutatingCalls(response.calls) = 1
         ELSE /\ IsValidationError(Err(response.error))
                   => response.calls = <<>>
              /\ IsNotFound(Err(response.error))
                   => MutatingCalls(response.calls) = 0

\* An update of a contact the caller owns was refused by validation before
\* any storage call.
C7_Witness ==
  /\ response.op = "update"
  /\ response.kind = "throw"
  /\ IsValidationError(Err(response.error))
  /\ response.calls = <<>>
  /\ Owned(contacts, response.user, response.params.contactId)

OwnedBy(store, u) == {r \in store : r.username = u}

\* C8: what get, update and remove by u answer on the table is what they
\* answer on the table with every row of the other users taken out, so an
\* id another user owns is answered as an id nobody has.
C8_OtherOwnerLooksAbsent ==
  \A u \in Users, c \in RequestIds :
    LET mine == OwnedBy(contacts, u)
    IN /\ get(contacts, u, c).result = get(mine, u, c).result
       /\ remove(contacts, u, c).result = remove(mine, u, c).result
       /\ \A b \in UpdateBodies :
            update(contacts, u, withId(c, b)).result
              = update(mine, u, withId(c, b)).result

\* alice's remove of a contact bob owns was answered with the not-found
\* error, as it is for an id nobody has.
C8_Witness ==
  /\ response.op = "remove"
  /\ response.kind = "throw"
  /\ response.user = "alice"
  /\ Owned(contacts, "bob", response.params.contactId)
  /\ IsNotFound(Err(response.error))

\* The statuses get, update and remove report for ids the caller has no
\* contact with.
NotFoundStatuses(store) ==
  UNION { { get(store, u, c).result.error.status,
            update(store, u,
                   withId(c, Body(Undefined, Undefined, Undefined,
                                  Undefined, Undefined))).result.error.status,
            remove(store, u, c).result.error.status }
          : <<u, c>> \in {x \in Users \X RequestIds :
                            ~Owned(store, x[1], x[2])} }

\* C9 as stated: once a not-found reply has been given, the code paths
\* report a missing or unowned contact with 404 on one path and 400 on
\* another.
C9_Original ==
  (response.kind = "throw" /\ IsNotFound(Err(response.error)))
    => {404, 400} \subseteq NotFoundStatuses(contacts)

\* C9 amended: get, update and remove report a missing or unowned contact
\* with the same HttpException, status 404 and message 'Contact is not
\* found', and every not-found reply given carries status 404.
C9_NotFoundIs404 ==
  /\ NotFoundStatuses(contacts) \subseteq {404}
  /\ \A u \in Users, c \in RequestIds :
       ~Owned(contacts, u, c) =>
         /\ get(contacts, u, c).result = remove(contacts, u, c).result
         /\ get(contacts, u, c).result.error.message = "Contact is not found"
  /\ (response.kind = "throw" /\ response.error.type = "HttpException")
       => response.error.status = 404

\* bob's update of an id he has no contact with was answered 404.
C9_Witness ==
  /\ response.op = "update"
  /\ response.kind = "throw"
  /\ response.user = "bob"
  /\ response.error.type = "HttpException"
  /\ response.error.status = 404

\* C10: update does not look the row up again when it resumes: the write of
\* a suspended update is issued whatever happened since the lookup, and when
\* the row is gone by then it fails with the storage layer's record-not-found
\* error and changes nothing; an update answered with that error is one whose
\* row was deleted after its lookup had found it.
C10_WriteAfterStaleLookup ==
  /\ pending.update # Idle =>
       LET done == updateWrite(contacts, pending.update)
       IN /\ done.calls = <<"findFirst", "update">>
          /\ IF Matching(contacts, pending.update.contact) = {}
               THEN done.result = Err(RecordNotFound) /\ done.store = contacts
               ELSE done.result.ok
  /\ (response.op = "update" /\ response.kind = "throw"
        /\ response.calls = <<"findFirst", "update">>) =>
       /\ response.error = RecordNotFound
       /\ ~Owned(contacts, response.user, response.params.contactId)
       /\ response.params.contactId < nextId

\* An update passed its lookup, a remove deleted the row, and the update's
\* write was then issued and found no row.
C10_Witness ==
  /\ response.op = "update"
  /\ response.kind = "throw"
  /\ response.calls = <<"findFirst", "update">>
  /\ response.error = RecordNotFound

====
